---- MODULE Spec2Model ----
(***************************************************************************)
(* Revision store of the "Revisions" VS Code extension (src/extension.ts). *)
(*                                                                         *)
(* State: the in-memory map globalRevisions (file name -> base content +   *)
(* ordered revisions), the copy held by the host's globalState, the        *)
(* revisions.maxRevisionsPerFile setting and the wall clock.               *)
(*                                                                         *)
(* Documents' texts are the tokens of Texts.  Each token stands for a      *)
(* text of the length TextLength gives, and two different tokens stand for *)
(* texts that share no character (each one letter repeated).  For such     *)
(* texts diff-match-patch behaves as follows, and this is what the         *)
(* operators diff_main .. patch_apply below compute:                       *)
(*  - diff_main(t, t) is one equality and patch_make makes no patch of it, *)
(*    so the stored patch text is empty and applying it changes nothing;   *)
(*  - diff_main(t1, t2), t1 # t2, is "delete t1, insert t2"; the patch has *)
(*    no context besides t1 itself;                                        *)
(*  - patch_apply finds t1 only in a text equal to t1 (a text of other     *)
(*    letters is further than Match_Threshold from it), replaces it by t2  *)
(*    there, and otherwise leaves the text as it is and reports false for  *)
(*    the patch;                                                           *)
(*  - patch_apply first splits a patch that deletes more than              *)
(*    Match_MaxBits characters into its deletion and its insertion, which  *)
(*    apply or fail together, and reports one boolean for each.            *)
(* Times are milliseconds counted from the first observed instant.         *)
(***************************************************************************)
EXTENDS Integers, Sequences, FiniteSets, Bags, TLC

VARIABLES
    globalRevisions,      \* extension.ts:26, file name -> chain
    persisted,            \* value of key 'revisions' in context.globalState
    maxRevisionsPerFile,  \* setting revisions.maxRevisionsPerFile
    now,                  \* Date.now()
    snapshots,            \* number of snapshots recorded so far
    lastContent,          \* history: text of the last recorded snapshot per chain
    lifecycle,            \* history: per file "never" | "live" | "cleaned" | "reborn"
    intact,               \* history: per chain that never lost a revision, the contents
                          \* recorded in it, first snapshot first
    intactStored,         \* history: the same for the chains of the stored map
    message,              \* the information message shown last
    suspended,            \* handler invocations waiting at an await (SpecAsync)
    view                  \* the chain the open history view was rendered from (SpecHistory)

vars == <<globalRevisions, persisted, maxRevisionsPerFile, now, snapshots,
          lastContent, lifecycle, intact, intactStored, message, suspended,
          view>>

----------------------------------------------------------------------------
(* Bounds *)

MaxSnapshots == 3
MaxDays == 1
MaxConfigured == 1

(* Inputs *)

Files == {"f1", "f2"}
Texts == {"a", "b", "huge"}
Undefined == "<undefined>"
NameInputs == {Undefined, "", "v1"}
DaysInputs == 0 .. 1
IndexInputs == -1 .. MaxSnapshots - 1

(* Program constants *)

MAX_FILE_SIZE == 1024 * 1024
DefaultMaxRevisions == 50
MsPerDay == 24 * 60 * 60 * 1000

ConfigValues == (1 .. MaxConfigured) \cup {DefaultMaxRevisions}

\* "a" is a short text, "b" has exactly MAX_FILE_SIZE characters, "huge" one more
TextLength(t) ==
    IF t = "huge" THEN MAX_FILE_SIZE + 1
    ELSE IF t = "b" THEN MAX_FILE_SIZE
    ELSE 12

----------------------------------------------------------------------------
(* diff-match-patch, on texts that share no character *)

DIFF_DELETE == "delete"
DIFF_INSERT == "insert"
DIFF_EQUAL == "equal"

diff_main(text1, text2) ==
    IF text1 = text2
    THEN <<<<DIFF_EQUAL, text1>>>>
    ELSE <<<<DIFF_DELETE, text1>>, <<DIFF_INSERT, text2>>>>

\* patch_make(diffs): no patch when the diffs hold no change
patch_make(diffs) ==
    IF \A i \in 1 .. Len(diffs) : diffs[i][1] = DIFF_EQUAL
    THEN <<>>
    ELSE <<[start1 |-> 0, diffs |-> diffs]>>

\* one hunk per patch: a header and one line per diff, sign first
patch_toText(patches) ==
    [p \in 1 .. Len(patches) |->
        <<"@@", [i \in 1 .. Len(patches[p].diffs) |->
                    <<IF patches[p].diffs[i][1] = DIFF_DELETE THEN "-"
                      ELSE IF patches[p].diffs[i][1] = DIFF_INSERT THEN "+"
                      ELSE " ",
                      patches[p].diffs[i][2]>>]>>]

patch_fromText(textline) ==
    [p \in 1 .. Len(textline) |->
        [start1 |-> 0,
         diffs |-> [i \in 1 .. Len(textline[p][2]) |->
                      <<IF textline[p][2][i][1] = "-" THEN DIFF_DELETE
                        ELSE IF textline[p][2][i][1] = "+" THEN DIFF_INSERT
                        ELSE DIFF_EQUAL,
                        textline[p][2][i][2]>>]]]

\* the text a patch expects (diff_text1) and the text it leaves (diff_text2)
diff_text1(diffs) == SelectSeq(diffs, LAMBDA d : d[1] # DIFF_INSERT)[1][2]
diff_text2(diffs) == SelectSeq(diffs, LAMBDA d : d[1] # DIFF_DELETE)[1][2]

Match_MaxBits == 32
Patch_Margin == 4

\* patch_splitMax, called by patch_apply once the padding of Patch_Margin
\* characters is added on both sides: a patch over more than Match_MaxBits
\* characters becomes the deletion followed by the insertion
patch_splitMax(patches) ==
    IF Len(patches) = 0
    THEN patches
    ELSE IF TextLength(diff_text1(patches[1].diffs)) + 2 * Patch_Margin > Match_MaxBits
         THEN <<[start1 |-> 0, diffs |-> <<<<DIFF_DELETE, diff_text1(patches[1].diffs)>>>>],
                [start1 |-> 0, diffs |-> <<<<DIFF_INSERT, diff_text2(patches[1].diffs)>>>>]>>
         ELSE patches

\* patch_apply(patches, text) -> [patched text, one boolean per patch applied]
patch_apply(patches, text) ==
    IF Len(patches) = 0
    THEN [text |-> text, results |-> <<>>]
    ELSE LET found == text = diff_text1(patches[1].diffs)
         IN  [text |-> IF found THEN diff_text2(patches[1].diffs) ELSE text,
              results |-> [i \in 1 .. Len(patch_splitMax(patches)) |-> found]]

----------------------------------------------------------------------------
(* The store *)

Thrown == "<TypeError>"

HasChain(store, fileName) == fileName \in DOMAIN store

\* patches revisions[0 .. n-1] applied in order from the base content
RECURSIVE replay(_, _)
replay(chain, n) ==
    IF n = 0
    THEN [text |-> chain.baseContent, results |-> <<>>]
    ELSE LET prev == replay(chain, n - 1)
             step == patch_apply(patch_fromText(chain.revisions[n].diff), prev.text)
         IN  [text |-> step.text, results |-> prev.results \o step.results]

\* revisionIndex counts from 0; revisions[i] of the code is revisions[i+1] here
getContentAtRevision(store, fileName, revisionIndex) ==
    IF ~HasChain(store, fileName) THEN Thrown
    ELSE IF revisionIndex < 0 THEN store[fileName].baseContent
    ELSE IF revisionIndex >= Len(store[fileName].revisions) THEN Thrown
    ELSE replay(store[fileName], revisionIndex + 1).text

\* slice(0, n) in place of slice(-n): keeps the oldest revisions
slice_oldest(revisions, n) ==
    IF n = 0 \/ n >= Len(revisions)
    THEN revisions
    ELSE SubSeq(revisions, 1, n)

\* Array.prototype.slice(-n): the last n elements, all of them when n is 0
slice(revisions, n) ==
    IF n = 0 \/ n >= Len(revisions)
    THEN revisions
    ELSE SubSeq(revisions, Len(revisions) - n + 1, Len(revisions))

\* slice(-maxRevisions - 1): one revision too many is kept
trimChain_keepsOneMore(chain, maxRevisions) ==
    IF Len(chain.revisions) > maxRevisions
    THEN [chain EXCEPT !.revisions = slice(chain.revisions, maxRevisions + 1)]
    ELSE chain

trimChain(chain, maxRevisions) ==
    IF Len(chain.revisions) > maxRevisions
    THEN [chain EXCEPT !.revisions = slice(chain.revisions, maxRevisions)]
    ELSE chain

trimRevisionsToMax(store, maxRevisions) ==
    [fileName \in DOMAIN store |-> trimChain(store[fileName], maxRevisions)]

\* name || undefined
OrUndefined(name) == IF name = "" THEN Undefined ELSE name

\* the revision is made without the name, as before names were introduced
newRevision_unnamed(lastText, content, name, time) ==
    [diff |-> patch_toText(patch_make(diff_main(lastText, content))),
     timestamp |-> time,
     name |-> Undefined]

newRevision(lastText, content, name, time) ==
    [diff |-> patch_toText(patch_make(diff_main(lastText, content))),
     timestamp |-> time,
     name |-> OrUndefined(name)]

\* the patch is made from the base content in place of the latest content
pushRevision_fromBase(store, fileName, content, name, time) ==
    [store EXCEPT ![fileName].revisions =
        Append(@, newRevision(store[fileName].baseContent, content, name, time))]

\* >= in place of >
tooLarge_inclusive(content) == TextLength(content) >= MAX_FILE_SIZE

\* the size guard of createSnapshotForFile
tooLarge(content) == TextLength(content) > MAX_FILE_SIZE

\* unshift in place of push: the new revision is put first
pushRevision_unshift(store, fileName, content, name, time) ==
    LET lastText == getContentAtRevision(store, fileName,
                                         Len(store[fileName].revisions) - 1)
    IN  [store EXCEPT ![fileName].revisions =
            <<newRevision(lastText, content, name, time)>> \o @]

\* the store once the new revision is pushed on the chain of fileName
pushRevision(store, fileName, content, name, time) ==
    LET lastText == getContentAtRevision(store, fileName,
                                         Len(store[fileName].revisions) - 1)
    IN  [store EXCEPT ![fileName].revisions =
            Append(@, newRevision(lastText, content, name, time))]

\* the chain is made anew by every snapshot
snapshotStore_recreates(store, fileName, content, name, time, maxRevisions) ==
    [f \in DOMAIN store \cup {fileName} |->
        IF f = fileName
        THEN [baseContent |-> content, revisions |-> <<>>]
        ELSE store[f]]

\* globalRevisions = { [fileName]: ... } in place of globalRevisions[fileName] =
\* ...: the first snapshot of a file makes a store of this file alone
snapshotStore_onlyFile(store, fileName, content, name, time, maxRevisions) ==
    IF ~HasChain(store, fileName)
    THEN [f \in {fileName} |-> [baseContent |-> content, revisions |-> <<>>]]
    ELSE [pushRevision(store, fileName, content, name, time)
            EXCEPT ![fileName] = trimChain(@, maxRevisions)]

\* the store after createSnapshotForFile accepted content for fileName
snapshotStore(store, fileName, content, name, time, maxRevisions) ==
    IF ~HasChain(store, fileName)
    THEN [f \in DOMAIN store \cup {fileName} |->
            IF f = fileName
            THEN [baseContent |-> content, revisions |-> <<>>]
            ELSE store[f]]
    ELSE [pushRevision(store, fileName, content, name, time)
            EXCEPT ![fileName] = trimChain(@, maxRevisions)]

\* the store createSnapshotForFile leaves: it returns before anything else
\* when the content is too large
createSnapshotStore(store, fileName, content, name, time, maxRevisions) ==
    IF tooLarge(content)
    THEN store
    ELSE snapshotStore(store, fileName, content, name, time, maxRevisions)

\* updateGlobalState is reached unless the handler returned early
snapshotPersists(content) == ~tooLarge(content)

\* >= in place of >
keepRevision_inclusive(revision, cutoffTime) == revision.timestamp >= cutoffTime

keepRevision(revision, cutoffTime) == revision.timestamp > cutoffTime

\* the survivors are made anew from their patch and timestamp, without the name
filterRevisions_unnamed(revisions, cutoffTime) ==
    LET kept == SelectSeq(revisions, LAMBDA revision : keepRevision(revision, cutoffTime))
    IN  [i \in 1 .. Len(kept) |-> [kept[i] EXCEPT !.name = Undefined]]

filterRevisions(revisions, cutoffTime) ==
    SelectSeq(revisions, LAMBDA revision : keepRevision(revision, cutoffTime))

cutoffOf(time, days) == time - days * MsPerDay

\* cleanupOldRevisions without the delete of emptied entries
cleanupStore_keepsEmptied(store, cutoffTime) ==
    [f \in DOMAIN store |->
        [store[f] EXCEPT !.revisions = filterRevisions(@, cutoffTime)]]

\* the store after cleanupOldRevisions
cleanupStore(store, cutoffTime) ==
    LET kept == {f \in DOMAIN store :
                    Len(filterRevisions(store[f].revisions, cutoffTime)) # 0}
    IN  [f \in kept |->
            [store[f] EXCEPT !.revisions = filterRevisions(@, cutoffTime)]]

RECURSIVE sumCleaned(_, _, _)
sumCleaned(store, cutoffTime, files) ==
    IF files = {} THEN 0
    ELSE LET f == CHOOSE x \in files : TRUE
         IN  (Len(store[f].revisions)
                - Len(filterRevisions(store[f].revisions, cutoffTime)))
             + sumCleaned(store, cutoffTime, files \ {f})

\* totalCleaned = ... in place of totalCleaned += ...: one file is counted
totalCleaned_oneFile(store, cutoffTime) ==
    IF DOMAIN store = {} THEN 0
    ELSE sumCleaned(store, cutoffTime, {CHOOSE f \in DOMAIN store : TRUE})

\* the number cleanupOldRevisions returns
totalCleaned(store, cutoffTime) == sumCleaned(store, cutoffTime, DOMAIN store)

validIndex(store, fileName, revisionIndex) ==
    /\ HasChain(store, fileName)
    /\ revisionIndex >= 0
    /\ revisionIndex < Len(store[fileName].revisions)

\* .name = name in place of .name = name || undefined
renameStore_keepsEmptyName(store, fileName, revisionIndex, name) ==
    [store EXCEPT ![fileName].revisions[revisionIndex + 1].name = name]

renameStore(store, fileName, revisionIndex, name) ==
    [store EXCEPT ![fileName].revisions[revisionIndex + 1].name = OrUndefined(name)]

\* a read that keeps what it reconstructed as the new base
readStore_rebases(store, fileName, revisionIndex) ==
    IF validIndex(store, fileName, revisionIndex)
    THEN [store EXCEPT ![fileName].baseContent =
            getContentAtRevision(store, fileName, revisionIndex)]
    ELSE store

\* the store getContentAtRevision leaves: it assigns to locals only
readStore(store, fileName, revisionIndex) == store

\* the store renameRevision leaves: nothing happens without the revision
renameResult(store, fileName, revisionIndex, name) ==
    IF validIndex(store, fileName, revisionIndex)
    THEN renameStore(store, fileName, revisionIndex, name)
    ELSE store

\* number of revisions held by all chains
revisionCount(store) ==
    Cardinality(UNION {{<<f, i>> : i \in 1 .. Len(store[f].revisions)} : f \in DOMAIN store})

\* vscode.window.showInformationMessage: the text, with the file name or the
\* number it carries
Message(text, file, count) == [text |-> text, file |-> file, count |-> count]

SnapshotCreated == "Snapshot created for"
RevisionRenamed == "Revision renamed successfully"
CleanedUp == "Cleaned up old revisions"
NoMessage == "<no message>"
RevisionOpened == "Revision opened in new tab"
RestoredInplace == "Restored to revision in current tab"
NoRevisionsFound == "No revisions found for this file"
ErrorComparing == "Error in comparing revisions"
ErrorRestoring == "Error in restoring revision"
ErrorRestoringInplace == "Error in restoring revision in-place"

\* what createSnapshotForFile shows: the early return only writes to the console
snapshotShows(content) == IF tooLarge(content) THEN NoMessage ELSE SnapshotCreated

\* what renameRevision shows: the guard of line 269 has no else branch and
\* nothing in the try block throws, so an unknown revision shows nothing
renameShows(store, fileName, revisionIndex) ==
    IF validIndex(store, fileName, revisionIndex) THEN RevisionRenamed ELSE NoMessage

\* no history view is open
NoView == [fileName |-> "", chain |-> [baseContent |-> "", revisions |-> <<>>]]

\* history bookkeeping: the files whose chain in `after' holds fewer revisions
\* than in `before', and a history without the entries of some files
lostRevisions(before, after) ==
    {f \in DOMAIN before :
        \/ ~HasChain(after, f)
        \/ Len(after[f].revisions) < Len(before[f].revisions)}

Without(history, files) == [f \in DOMAIN history \ files |-> history[f]]

----------------------------------------------------------------------------
(* Initial state: first activation, nothing stored yet *)

Init ==
    /\ globalRevisions = <<>>
    /\ persisted = <<>>
    /\ maxRevisionsPerFile = DefaultMaxRevisions
    /\ now = 0
    /\ snapshots = 0
    /\ lastContent = <<>>
    /\ lifecycle = [f \in Files |-> "never"]
    /\ intact = <<>>
    /\ intactStored = <<>>
    /\ message = Message("", "", 0)
    /\ suspended = EmptyBag
    /\ view = NoView

----------------------------------------------------------------------------
(* Handlers *)

createSnapshotForFile(fileName, content, name) ==
    /\ snapshots < MaxSnapshots
    /\ globalRevisions' = createSnapshotStore(globalRevisions, fileName, content,
                                              name, now, maxRevisionsPerFile)
    /\ persisted' = IF snapshotPersists(content) THEN globalRevisions' ELSE persisted
    /\ message' = IF snapshotShows(content) = NoMessage
                  THEN message
                  ELSE Message(snapshotShows(content), fileName, 0)
    /\ UNCHANGED <<suspended, view>>
    /\ IF tooLarge(content)
       THEN UNCHANGED <<lastContent, lifecycle, intact, intactStored, snapshots>>
       ELSE /\ snapshots' = snapshots + 1
            /\ lastContent' = [f \in DOMAIN globalRevisions' |->
                                 IF f = fileName THEN content ELSE lastContent[f]]
            /\ lifecycle' = [lifecycle EXCEPT ![fileName] =
                                IF HasChain(globalRevisions, fileName) THEN @
                                ELSE IF @ = "never" THEN "live" ELSE "reborn"]
            /\ intact' =
                 IF ~HasChain(globalRevisions, fileName)
                 THEN [f \in DOMAIN intact \cup {fileName} |->
                         IF f = fileName THEN <<content>> ELSE intact[f]]
                 ELSE IF fileName \notin DOMAIN intact
                      THEN intact
                      ELSE IF Len(globalRevisions'[fileName].revisions)
                                <= Len(globalRevisions[fileName].revisions)
                           THEN Without(intact, {fileName})
                           ELSE [intact EXCEPT ![fileName] = Append(@, content)]
            /\ intactStored' = intact'
    /\ UNCHANGED <<maxRevisionsPerFile, now>>

\* workspace.onDidSaveTextDocument
OnDidSaveTextDocument ==
    \E fileName \in Files, content \in Texts :
        createSnapshotForFile(fileName, content, Undefined)

\* command revisions.createSnapshot; the input box gives undefined when cancelled
CreateSnapshotCommand ==
    \E fileName \in Files, content \in Texts, name \in NameInputs :
        createSnapshotForFile(fileName, content, OrUndefined(name))

\* webview message 'rename'
renameRevision(fileName, revisionIndex, name) ==
    /\ globalRevisions' = renameResult(globalRevisions, fileName, revisionIndex, name)
    /\ persisted' = IF validIndex(globalRevisions, fileName, revisionIndex)
                    THEN globalRevisions' ELSE persisted
    /\ message' = IF renameShows(globalRevisions, fileName, revisionIndex) = NoMessage
                  THEN message
                  ELSE Message(renameShows(globalRevisions, fileName, revisionIndex), "", 0)
    /\ intactStored' = IF validIndex(globalRevisions, fileName, revisionIndex)
                       THEN intact ELSE intactStored
    /\ UNCHANGED <<maxRevisionsPerFile, now, snapshots, lastContent, lifecycle, intact,
                   suspended>>

RenameMessage ==
    \E fileName \in Files, revisionIndex \in IndexInputs, name \in NameInputs \ {Undefined} :
        renameRevision(fileName, revisionIndex, name) /\ UNCHANGED view

\* a request of the history view that only reads: the store the read leaves,
\* and the message shown when the read succeeds (done) or throws (failed); the
\* revision number the message names is left out.
\* The view of fileName exists only if the file had a chain when it was opened.
readRequest(fileName, revisionIndex, done, failed) ==
    LET content == getContentAtRevision(globalRevisions, fileName, revisionIndex)
    IN  /\ lifecycle[fileName] # "never"
        /\ globalRevisions' = readStore(globalRevisions, fileName, revisionIndex)
        /\ message' = IF content = Thrown
                      THEN Message(failed, "", 0)
                      ELSE IF done = NoMessage THEN message
                      ELSE Message(done, "", 0)
        /\ UNCHANGED <<persisted, maxRevisionsPerFile, now, snapshots, lastContent,
                       lifecycle, intact, intactStored, suspended, view>>

\* webview message 'compare': the diff editor opens, no message
compareRevisions(fileName, revisionIndex) ==
    readRequest(fileName, revisionIndex, NoMessage, ErrorComparing)

\* webview message 'restore'
restoreRevision(fileName, revisionIndex) ==
    readRequest(fileName, revisionIndex, RevisionOpened, ErrorRestoring)

\* webview message 'restoreInplace': the editor's text is replaced, not saved
restoreRevisionInplace(fileName, revisionIndex) ==
    readRequest(fileName, revisionIndex, RestoredInplace, ErrorRestoringInplace)

CompareMessage ==
    \E fileName \in Files, revisionIndex \in IndexInputs :
        compareRevisions(fileName, revisionIndex)

RestoreMessage ==
    \E fileName \in Files, revisionIndex \in IndexInputs :
        restoreRevision(fileName, revisionIndex)

RestoreInplaceMessage ==
    \E fileName \in Files, revisionIndex \in IndexInputs :
        restoreRevisionInplace(fileName, revisionIndex)

\* command revisions.viewHistory: the view opens, or the message is shown
viewHistory(fileName) ==
    /\ message' = IF HasChain(globalRevisions, fileName)
                  THEN message
                  ELSE Message(NoRevisionsFound, "", 0)
    /\ UNCHANGED <<globalRevisions, persisted, maxRevisionsPerFile, now, snapshots,
                   lastContent, lifecycle, intact, intactStored, suspended>>

ViewHistoryCommand == \E fileName \in Files : viewHistory(fileName) /\ UNCHANGED view

\* command revisions.cleanupRevisions, confirmed with 'Yes'
cleanupRevisions(days) ==
    /\ globalRevisions' = cleanupStore(globalRevisions, cutoffOf(now, days))
    /\ persisted' = globalRevisions'
    /\ lastContent' = [f \in DOMAIN globalRevisions' |-> lastContent[f]]
    /\ lifecycle' = [f \in Files |->
                       IF HasChain(globalRevisions, f) /\ ~HasChain(globalRevisions', f)
                       THEN "cleaned" ELSE lifecycle[f]]
    /\ intact' = Without(intact, lostRevisions(globalRevisions, globalRevisions'))
    /\ intactStored' = intact'
    /\ message' = Message(CleanedUp, "", totalCleaned(globalRevisions, cutoffOf(now, days)))
    /\ UNCHANGED <<maxRevisionsPerFile, now, snapshots, suspended, view>>

CleanupCommand == \E days \in DaysInputs : cleanupRevisions(days)

\* the setting changes and the listener of onConfigChange runs trimRevisionsToMax
configChange(maxRevisions) ==
    /\ maxRevisions # maxRevisionsPerFile
    /\ maxRevisionsPerFile' = maxRevisions
    /\ globalRevisions' = trimRevisionsToMax(globalRevisions, maxRevisions)
    /\ intact' = Without(intact, lostRevisions(globalRevisions, globalRevisions'))
    /\ UNCHANGED <<message, persisted, now, snapshots, lastContent, lifecycle, intactStored,
                   suspended, view>>

ConfigChange == \E maxRevisions \in ConfigValues : configChange(maxRevisions)

\* the extension host restarts: activate() loads the stored map and trims it
Activate ==
    /\ globalRevisions' = trimRevisionsToMax(persisted, maxRevisionsPerFile)
    /\ intact' = Without(intactStored, lostRevisions(persisted, globalRevisions'))
    /\ UNCHANGED <<message, persisted, maxRevisionsPerFile, now, snapshots, lastContent,
                   lifecycle, intactStored, suspended, view>>

\* time passes
Tick ==
    /\ now < MaxDays * MsPerDay
    /\ now' = now + MsPerDay
    /\ UNCHANGED <<globalRevisions, persisted, maxRevisionsPerFile, snapshots,
                   lastContent, lifecycle, intact, intactStored, message, suspended, view>>

Next ==
    \/ OnDidSaveTextDocument
    \/ CreateSnapshotCommand
    \/ RenameMessage
    \/ CleanupCommand
    \/ ConfigChange
    \/ Activate
    \/ Tick

Spec == Init /\ [][Next]_vars

\* the program with the requests that only read the store, for the behaviours
\* in which no revision is given a name (the reads do not look at names)
NextView ==
    \/ OnDidSaveTextDocument
    \/ CleanupCommand
    \/ ConfigChange
    \/ Activate
    \/ Tick
    \/ CompareMessage
    \/ RestoreMessage
    \/ RestoreInplaceMessage
    \/ ViewHistoryCommand

SpecView == Init /\ [][NextView]_vars

----------------------------------------------------------------------------
(* Properties of the store *)

\* what every step of the cleanup command, of a valid rename, of a recorded
\* snapshot, of a configuration change and of an activation leaves unchanged
CleanupFrame == message'.text = CleanedUp /\ UNCHANGED <<now, snapshots, maxRevisionsPerFile>>
RenameFrame == message'.text = RevisionRenamed /\ UNCHANGED <<now, snapshots, maxRevisionsPerFile>>
SnapshotFrame == snapshots' = snapshots + 1
ConfigFrame == maxRevisionsPerFile' # maxRevisionsPerFile
ActivateFrame == UNCHANGED <<persisted, message, now, snapshots, maxRevisionsPerFile>>

Revisions(store, fileName) ==
    IF HasChain(store, fileName) THEN store[fileName].revisions ELSE <<>>

\* every revision of fileName in store `after' yields, at its new index, the
\* content it yielded in store `before', where it stood `dropped' places later
SameHistory(before, after, fileName) ==
    LET dropped == Len(Revisions(before, fileName)) - Len(Revisions(after, fileName))
    IN  \A i \in 0 .. Len(Revisions(after, fileName)) - 1 :
            getContentAtRevision(after, fileName, i)
              = getContentAtRevision(before, fileName, i + dropped)

\* C1: round-trip law: for every chain with at least one revision, the content
\* reconstructed at the last index is the content of the most recent append.
C1_RoundTrip ==
    \A f \in DOMAIN globalRevisions :
        Len(globalRevisions[f].revisions) >= 1 =>
            getContentAtRevision(globalRevisions, f, Len(globalRevisions[f].revisions) - 1)
              = lastContent[f]

\* C2: replay invariant: for every chain and every index k, every patch of
\* revisions[0..k] applies when replayed in order from the base.
C2_ReplaySucceeds ==
    \A f \in DOMAIN globalRevisions :
        \A k \in 1 .. Len(globalRevisions[f].revisions) :
            \A j \in 1 .. Len(replay(globalRevisions[f], k).results) :
                replay(globalRevisions[f], k).results[j]

\* C3: a max-count trim (on a configuration change, on activation, or inline
\* after an append) leaves the reconstructed content of every surviving
\* revision as it was before the trim.
C3_MaxTrimPreservesHistory ==
    [][ /\ ConfigFrame => \A m \in ConfigValues : configChange(m) =>
              \A f \in DOMAIN globalRevisions :
                  SameHistory(globalRevisions, globalRevisions', f)
        /\ (ActivateFrame /\ Activate) =>
              \A f \in DOMAIN persisted :
                  SameHistory(persisted, globalRevisions', f)
        /\ SnapshotFrame =>
           \A f \in DOMAIN globalRevisions, content \in Texts, name \in NameInputs :
              (/\ message'.file = f
               /\ TextLength(content) <= MAX_FILE_SIZE
               /\ createSnapshotForFile(f, content, name)) =>
                 SameHistory(pushRevision(globalRevisions, f, content, name, now),
                             globalRevisions', f)
      ]_vars

\* the base a chain must have once a max-count trim dropped a prefix of it
RebasedOK(before, after, fileName, maxRevisions) ==
    Len(before[fileName].revisions) > maxRevisions =>
        after[fileName].baseContent
          = getContentAtRevision(before, fileName,
                                 Len(before[fileName].revisions) - maxRevisions - 1)

\* C4: whenever a max-count trim drops a non-empty prefix, the new base is the
\* content reconstructed just before the first surviving revision.
C4_MaxTrimRebases ==
    [][ /\ ConfigFrame => \A m \in ConfigValues : configChange(m) =>
              \A f \in DOMAIN globalRevisions :
                  RebasedOK(globalRevisions, globalRevisions', f, m)
        /\ (ActivateFrame /\ Activate) =>
              \A f \in DOMAIN persisted :
                  RebasedOK(persisted, globalRevisions', f, maxRevisionsPerFile)
        /\ SnapshotFrame =>
           \A f \in DOMAIN globalRevisions, content \in Texts, name \in NameInputs :
              (/\ message'.file = f
               /\ TextLength(content) <= MAX_FILE_SIZE
               /\ createSnapshotForFile(f, content, name)) =>
                 RebasedOK(pushRevision(globalRevisions, f, content, name, now),
                           globalRevisions', f, maxRevisionsPerFile)
      ]_vars

\* the revisions of fileName after a max-count trim to maxRevisions
TrimmedTo(before, after, fileName, maxRevisions) ==
    LET old == before[fileName].revisions
        new == Revisions(after, fileName)
    IN  /\ HasChain(after, fileName)
        /\ Len(new) <= maxRevisions
        /\ Len(old) > maxRevisions =>
              new = SubSeq(old, Len(old) - maxRevisions + 1, Len(old))
        /\ Len(old) <= maxRevisions => new = old

\* C5: after trimRevisionsToMax with maxCount >= 1 every chain has at most
\* maxCount revisions: the last maxCount of the former sequence, in order, when
\* it had more, and the former sequence otherwise.
C5_MaxTrimResult ==
    [][ /\ ConfigFrame => \A m \in ConfigValues : configChange(m) =>
              \A f \in DOMAIN globalRevisions :
                  TrimmedTo(globalRevisions, globalRevisions', f, m)
        /\ (ActivateFrame /\ Activate) =>
              \A f \in DOMAIN persisted :
                  TrimmedTo(persisted, globalRevisions', f, maxRevisionsPerFile)
      ]_vars

C5_Witness ==
    \E f \in DOMAIN globalRevisions :
        LET kept == globalRevisions[f].revisions
            stored == persisted[f].revisions
        IN  /\ Len(kept) = maxRevisionsPerFile
            /\ Len(stored) > maxRevisionsPerFile
            /\ kept = SubSeq(stored, Len(stored) - Len(kept) + 1, Len(stored))

\* C6: after cleanupOldRevisions every surviving revision of every remaining
\* chain reconstructs, at its new index, to the content it reconstructed to
\* before the cleanup.
C6_AgeTrimPreservesHistory ==
    [][ CleanupFrame => \A days \in DaysInputs : cleanupRevisions(days) =>
            \A f \in DOMAIN globalRevisions' :
                SameHistory(globalRevisions, globalRevisions', f)
      ]_vars

\* C7: cleanupOldRevisions(days) removes from every chain exactly the revisions
\* with timestamp <= now - days*86400000, and the removed revisions are a
\* leading run of the chain: the survivors are a suffix of the former sequence.
C7_AgeTrimSelection ==
    [][ CleanupFrame => \A days \in DaysInputs : cleanupRevisions(days) =>
            \A f \in DOMAIN globalRevisions :
                LET old == globalRevisions[f].revisions
                    new == Revisions(globalRevisions', f)
                    removed == Len(old) - Len(new)
                    cutoffTime == now - days * 86400000
                IN  /\ removed >= 0
                    /\ new = SubSeq(old, removed + 1, Len(old))
                    /\ \A i \in 1 .. removed : old[i].timestamp <= cutoffTime
                    /\ \A i \in removed + 1 .. Len(old) : old[i].timestamp > cutoffTime
      ]_vars

\* a cleanup that removed the older revision of the only chain and kept the newer
C7_Witness ==
    /\ message.text = CleanedUp
    /\ message.count > 0
    /\ lifecycle["f2"] = "never"
    /\ lifecycle["f1"] = "live"
    /\ Len(globalRevisions["f1"].revisions) > 0

\* C8: a cleanup that removes all revisions of a chain removes the file's entry;
\* the next recorded snapshot of that file makes a chain whose base is the
\* snapshot's content and whose revisions are empty.
C8_DeletionAndRebirth ==
    [][ /\ CleanupFrame => \A days \in DaysInputs : cleanupRevisions(days) =>
              \A f \in DOMAIN globalRevisions :
                  (\A i \in 1 .. Len(globalRevisions[f].revisions) :
                      globalRevisions[f].revisions[i].timestamp <= now - days * 86400000)
                  => ~HasChain(globalRevisions', f)
        /\ SnapshotFrame =>
           \A f \in Files, content \in Texts, name \in NameInputs :
              (/\ message'.file = f
               /\ lifecycle[f] = "cleaned"
               /\ TextLength(content) <= MAX_FILE_SIZE
               /\ createSnapshotForFile(f, content, name)) =>
                 /\ HasChain(globalRevisions', f)
                 /\ globalRevisions'[f] = [baseContent |-> content, revisions |-> <<>>]
      ]_vars

C8_Witness ==
    \E f \in DOMAIN globalRevisions :
        /\ lifecycle[f] = "reborn"
        /\ message = Message(SnapshotCreated, f, 0)
        /\ globalRevisions[f] = [baseContent |-> lastContent[f], revisions |-> <<>>]

\* C9: the number cleanupOldRevisions returns is the number of revisions
\* removed over all files; with days = 0 and no timestamp after now it is the
\* number of revisions that existed.
C9_CleanupCount ==
    [][ CleanupFrame => \A days \in DaysInputs : cleanupRevisions(days) =>
            /\ message'.count
                 = revisionCount(globalRevisions) - revisionCount(globalRevisions')
            /\ (/\ days = 0
                /\ \A f \in DOMAIN globalRevisions :
                      \A i \in 1 .. Len(globalRevisions[f].revisions) :
                          globalRevisions[f].revisions[i].timestamp <= now)
               => message'.count = revisionCount(globalRevisions)
      ]_vars

\* a cleanup that went through the chains of both files and removed revisions
C9_Witness ==
    /\ message.text = CleanedUp
    /\ message.count >= 1
    /\ \A f \in Files : lifecycle[f] = "cleaned"

\* C10: renameRevision with a valid index sets the name of that revision (no
\* name when the given one is empty) and changes nothing else, so that every
\* reconstructed content is unchanged and renaming again changes nothing.
C10_RenameFrame ==
    [][ RenameFrame =>
        \A f \in DOMAIN globalRevisions :
        \A index \in 0 .. Len(globalRevisions[f].revisions) - 1 :
        \A name \in NameInputs \ {Undefined} :
            renameRevision(f, index, name) =>
            LET old == globalRevisions[f].revisions
                new == Revisions(globalRevisions', f)
            IN  /\ DOMAIN globalRevisions' = DOMAIN globalRevisions
                /\ \A g \in DOMAIN globalRevisions \ {f} :
                      globalRevisions'[g] = globalRevisions[g]
                /\ globalRevisions'[f].baseContent = globalRevisions[f].baseContent
                /\ Len(new) = Len(old)
                /\ \A j \in 1 .. Len(old) :
                      /\ new[j].diff = old[j].diff
                      /\ new[j].timestamp = old[j].timestamp
                      /\ j # index + 1 => new[j].name = old[j].name
                /\ new[index + 1].name = (IF name = "" THEN Undefined ELSE name)
                /\ \A i \in -1 .. Len(old) - 1 :
                      getContentAtRevision(globalRevisions', f, i)
                        = getContentAtRevision(globalRevisions, f, i)
                /\ renameStore(globalRevisions', f, index, name) = globalRevisions'
      ]_vars

\* a rename has acted and a revision bears a name
C10_Witness ==
    /\ message.text = RevisionRenamed
    /\ persisted = globalRevisions
    /\ \E f \in DOMAIN globalRevisions :
          \E i \in 1 .. Len(globalRevisions[f].revisions) :
              globalRevisions[f].revisions[i].name = "v1"

\* C11: renameRevision for a file without chain, or with an index outside
\* 0 .. len(revisions)-1, leaves the store as it is and shows a failure message.
C11_InvalidRenameSurfaced ==
    \A f \in Files, index \in IndexInputs, name \in NameInputs \ {Undefined} :
        ~validIndex(globalRevisions, f, index) =>
            /\ renameResult(globalRevisions, f, index, name) = globalRevisions
            /\ renameShows(globalRevisions, f, index) \notin {NoMessage, RevisionRenamed}

\* C12: a chain made by a first snapshot of content c0 and extended by appends
\* of c1..cn, none of whose revisions was removed by a trim or a cleanup, has
\* exactly n revisions, reconstructs to c(i+1) at every index 0 <= i < n and to
\* its base c0 at every negative index.
C12_UntrimmedReconstruction ==
    \A f \in DOMAIN intact :
        LET c == intact[f]
            n == Len(c) - 1
        IN  /\ HasChain(globalRevisions, f)
            /\ Len(globalRevisions[f].revisions) = n
            /\ \A i \in 0 .. n - 1 : getContentAtRevision(globalRevisions, f, i) = c[i + 2]
            /\ \A i \in {-2, -1} : getContentAtRevision(globalRevisions, f, i) = c[1]
            /\ globalRevisions[f].baseContent = c[1]

\* an untrimmed chain with two revisions of three different recordings
C12_Witness ==
    \E f \in DOMAIN intact :
        /\ Len(intact[f]) = 3
        /\ intact[f][1] # intact[f][2]
        /\ intact[f][2] # intact[f][3]
        /\ Len(globalRevisions[f].revisions) = 2

\* C13: getContentAtRevision gives no content but a CorruptChain failure when
\* a patch among revisions[0..index] does not apply to the content it is
\* replayed onto, or when index is greater than len(revisions)-1.
C13_CorruptChainFails ==
    \A f \in DOMAIN globalRevisions :
        \A index \in 0 .. Len(globalRevisions[f].revisions) :
            (\/ index > Len(globalRevisions[f].revisions) - 1
             \/ \E j \in 1 .. Len(replay(globalRevisions[f], index + 1).results) :
                   ~replay(globalRevisions[f], index + 1).results[j])
            => getContentAtRevision(globalRevisions, f, index) = Thrown

\* C14: reconstructing a revision, and the compare, restore, restore-in-place
\* and view-history requests that use it, leave the store in memory and the
\* stored map unchanged (every base, revision sequence, patch, timestamp and
\* name); reconstruction being a function of the store, it then gives
\* afterwards what it gave before.
C14_ReadsDoNotMutate ==
    [][ (/\ UNCHANGED <<maxRevisionsPerFile, now, snapshots>>
         /\ \/ \E f \in Files, index \in IndexInputs :
                  \/ compareRevisions(f, index)
                  \/ restoreRevision(f, index)
                  \/ restoreRevisionInplace(f, index)
            \/ \E f \in Files : viewHistory(f))
        => /\ globalRevisions' = globalRevisions
           /\ persisted' = persisted
      ]_vars

\* a revision of a chain with revisions was opened in a new tab
C14_Witness ==
    /\ message.text = RevisionOpened
    /\ \E f \in DOMAIN globalRevisions : Len(globalRevisions[f].revisions) >= 2

NewRevisionLast(after, fileName, name) ==
    LET new == after[fileName].revisions
    IN  /\ Len(new) >= 1
        /\ new[Len(new)].timestamp = now
        /\ new[Len(new)].name = name

\* C16 as stated: a snapshot of a content within the ceiling on an existing
\* chain makes the chain one revision longer, whatever its length and also
\* when the content is the one recorded last; the new revision is last and
\* carries timestamp = now and the given name.
C16_AppendAlwaysRecords ==
    [][ SnapshotFrame =>
        \A f \in DOMAIN globalRevisions, content \in Texts, name \in NameInputs :
            (/\ message'.file = f
             /\ ~tooLarge(content)
             /\ createSnapshotForFile(f, content, OrUndefined(name))) =>
                /\ Len(globalRevisions'[f].revisions)
                     = Len(globalRevisions[f].revisions) + 1
                /\ NewRevisionLast(globalRevisions', f, OrUndefined(name))
      ]_vars

\* C16 amended: the append makes the chain one revision longer, the former
\* revisions first and the new one last with timestamp = now and the given
\* name, also when the content is the one recorded last; the inline trim that
\* follows keeps the last maxRevisionsPerFile of these, so that the snapshot
\* leaves min(len + 1, maxRevisionsPerFile) revisions.
C16_AppendThenTrim ==
    [][ SnapshotFrame =>
        \A f \in DOMAIN globalRevisions, content \in Texts, name \in NameInputs :
            (/\ message'.file = f
             /\ ~tooLarge(content)
             /\ createSnapshotForFile(f, content, OrUndefined(name))) =>
                LET old == globalRevisions[f].revisions
                    pushed == pushRevision(globalRevisions, f, content,
                                           OrUndefined(name), now)[f].revisions
                    new == globalRevisions'[f].revisions
                    kept == IF Len(old) + 1 <= maxRevisionsPerFile
                            THEN Len(old) + 1 ELSE maxRevisionsPerFile
                IN  /\ Len(pushed) = Len(old) + 1
                    /\ SubSeq(pushed, 1, Len(old)) = old
                    /\ Len(new) = kept
                    /\ new = SubSeq(pushed, Len(pushed) - kept + 1, Len(pushed))
                    /\ NewRevisionLast(globalRevisions', f, OrUndefined(name))
      ]_vars

\* a snapshot recorded again the content recorded last, with a name, on a chain
\* that was at its maximal length
C16_Witness ==
    \E f \in DOMAIN globalRevisions :
        LET revisions == globalRevisions[f].revisions
        IN  /\ message = Message(SnapshotCreated, f, 0)
            /\ Len(revisions) = maxRevisionsPerFile
            /\ revisions[Len(revisions)].diff = <<>>
            /\ revisions[Len(revisions)].name = "v1"
            /\ revisions[Len(revisions)].timestamp = now

\* C17: the first snapshot, automatic or manual, of a file without chain makes
\* a chain whose base is the snapshot's content and whose revisions are empty;
\* a snapshot of a file that has a chain keeps the chain: its base stays and
\* no revision it holds is overwritten (those that remain are the former ones,
\* in order, followed by the new one).
C17_ChainCreation ==
    [][ SnapshotFrame =>
        \A f \in Files, content \in Texts, name \in NameInputs :
            (/\ message'.file = f
             /\ ~tooLarge(content)
             /\ createSnapshotForFile(f, content, OrUndefined(name))) =>
                IF ~HasChain(globalRevisions, f)
                THEN /\ HasChain(globalRevisions', f)
                     /\ globalRevisions'[f].baseContent = content
                     /\ globalRevisions'[f].revisions = <<>>
                ELSE LET old == globalRevisions[f].revisions
                         new == globalRevisions'[f].revisions
                         former == Len(new) - 1
                     IN  /\ globalRevisions'[f].baseContent = globalRevisions[f].baseContent
                         /\ former >= 0
                         /\ former <= Len(old)
                         /\ SubSeq(new, 1, former)
                              = SubSeq(old, Len(old) - former + 1, Len(old))
      ]_vars

\* a chain made by a first snapshot and kept by a snapshot of another content
C17_Witness ==
    \E f \in DOMAIN globalRevisions :
        /\ message = Message(SnapshotCreated, f, 0)
        /\ lifecycle[f] = "live"
        /\ Len(globalRevisions[f].revisions) = 2
        /\ globalRevisions[f].baseContent # lastContent[f]
        /\ f \in DOMAIN intact
        /\ intact[f][1] = globalRevisions[f].baseContent

\* C18: with maxRevisionsPerFile in 1 .. 1000, once the activation, a handler
\* of a configuration change or a snapshot has completed, every chain of the
\* store holds at most maxRevisionsPerFile revisions.
C18_LengthCap ==
    maxRevisionsPerFile \in 1 .. 1000 =>
        \A f \in DOMAIN globalRevisions :
            Len(globalRevisions[f].revisions) <= maxRevisionsPerFile

\* a chain that lost a revision to a trim and is as long as the setting allows
C18_Witness ==
    \E f \in DOMAIN globalRevisions :
        /\ maxRevisionsPerFile < DefaultMaxRevisions
        /\ Len(globalRevisions[f].revisions) = maxRevisionsPerFile
        /\ f \notin DOMAIN intact
        /\ lifecycle[f] = "live"

\* C19: every completed operation that changes the store in memory (chain
\* creation, append, rename, age cleanup, max-count trim on activation or on a
\* configuration change) leaves the stored map equal to the map in memory.
C19_PersistedAfterMutation ==
    [][ globalRevisions' # globalRevisions => persisted' = globalRevisions' ]_vars

----------------------------------------------------------------------------
(* The handlers as the host's event loop runs them.                        *)
(*                                                                         *)
(* A handler is the list of its statements.  The event loop runs one       *)
(* callback at a time: a callback runs from where it starts to its end, to *)
(* a return or to its next await, and nothing else runs in between.  A     *)
(* callback that reaches an await is kept in `suspended' with its locals   *)
(* and is resumed by a later turn of the loop, with the awaited result.    *)
(*                                                                         *)
(* SpecAsync follows the store, the stored map and the callbacks of one    *)
(* file during one day: the clock stands still and what the handlers show  *)
(* is not recorded (a show statement and the catch block change nothing).  *)

AsyncFiles == {"f1"}
MaxSuspended == 2

NoDays == -1
ErrorCreating == "Error in creating snapshot"
ErrorRenaming == "Error in renaming revision"

\* the body of createSnapshotForFile with an await between the reconstruction
\* of the latest content and the push of the new revision
createSnapshotForFileSteps_awaitsEarly ==
    <<"content = getText", "if tooLarge return", "create or getContentAtRevision",
      "await updateGlobalState", "push", "slice", "await updateGlobalState",
      "show Snapshot created">>

createSnapshotForFileSteps ==
    <<"content = getText", "if tooLarge return", "create or getContentAtRevision",
      "push", "slice", "await updateGlobalState", "show Snapshot created">>

\* command revisions.createSnapshot: the text is read once the input box closed
createSnapshotSteps ==
    <<"await showInputBox name", "name = result">> \o createSnapshotForFileSteps

renameRevisionSteps ==
    <<"if no revision return", "revision.name = name", "await updateGlobalState",
      "getWebviewContent", "show Revision renamed">>

\* command revisions.cleanupRevisions: updateGlobalState is not awaited
cleanupRevisionsSteps ==
    <<"await showInputBox days", "days = result", "if no days return",
      "await showWarningMessage", "choice = result", "if not Yes return",
      "cleanupOldRevisions", "show Cleaned up", "updateGlobalState">>

\* the listener of onConfigChange
configChangeSteps == <<"trimRevisionsToMax">>

Steps(handler) ==
    CASE handler = "onDidSaveTextDocument" -> createSnapshotForFileSteps
      [] handler = "createSnapshot" -> createSnapshotSteps
      [] handler = "renameRevision" -> renameRevisionSteps
      [] handler = "cleanupRevisions" -> cleanupRevisionsSteps
      [] handler = "onConfigChange" -> configChangeSteps

\* the statements that read a chain of globalRevisions, and those that write one
ChainReads ==
    {"create or getContentAtRevision", "push", "slice", "if no revision return",
     "revision.name = name", "getWebviewContent", "cleanupOldRevisions",
     "trimRevisionsToMax"}

Mutations ==
    {"create or getContentAtRevision", "push", "slice", "revision.name = name",
     "cleanupOldRevisions", "trimRevisionsToMax"}

\* the locals of a callback, and the locals a statement reads
NoLocals ==
    [fileName |-> "-", content |-> "-", name |-> "-", lastContent |-> "-",
     created |-> FALSE, revisionIndex |-> 0, days |-> NoDays, choice |-> "-",
     cleanedUp |-> 0]

reads(stmt) ==
    CASE stmt = "if tooLarge return" -> {"content"}
      [] stmt = "create or getContentAtRevision" -> {"fileName", "content"}
      [] stmt = "push" -> {"fileName", "content", "name", "lastContent", "created"}
      [] stmt = "slice" -> {"fileName", "created"}
      [] stmt = "show Snapshot created" -> {"fileName"}
      [] stmt = "if no revision return" -> {"fileName", "revisionIndex"}
      [] stmt = "revision.name = name" -> {"fileName", "revisionIndex", "name"}
      [] stmt = "getWebviewContent" -> {"fileName"}
      [] stmt = "if no days return" -> {"days"}
      [] stmt = "if not Yes return" -> {"choice"}
      [] stmt = "cleanupOldRevisions" -> {"days"}
      [] stmt = "show Cleaned up" -> {"cleanedUp"}
      [] OTHER -> {}

\* the locals still read from statement pc on; the others are dead
live(steps, pc) == UNION {reads(steps[j]) : j \in pc .. Len(steps)}

liveLocals(l, steps, pc) ==
    [k \in DOMAIN l |-> IF k \in live(steps, pc) THEN l[k] ELSE NoLocals[k]]

\* the catch block: handleError shows the message and the handler ends
throw(e, text) == [e EXCEPT !.flow = "return"]

\* one statement: e holds the store, the stored map and the locals; in holds
\* the awaited result and the text of the document
exec(stmt, e, in) ==
    LET f == e.l.fileName
    IN  CASE stmt = "name = result" ->
                [e EXCEPT !.l.name = OrUndefined(in.result)]
          [] stmt = "content = getText" ->
                [e EXCEPT !.l.content = in.content]
          [] stmt = "if tooLarge return" ->
                IF tooLarge(e.l.content) THEN [e EXCEPT !.flow = "return"] ELSE e
          [] stmt = "create or getContentAtRevision" ->
                IF ~HasChain(e.store, f)
                THEN [e EXCEPT !.l.created = TRUE,
                               !.store = [g \in DOMAIN e.store \cup {f} |->
                                   IF g = f
                                   THEN [baseContent |-> e.l.content, revisions |-> <<>>]
                                   ELSE e.store[g]]]
                ELSE [e EXCEPT !.l.created = FALSE,
                               !.l.lastContent =
                                   getContentAtRevision(e.store, f,
                                       Len(e.store[f].revisions) - 1)]
          [] stmt = "push" ->
                IF e.l.created THEN e
                ELSE IF ~HasChain(e.store, f) THEN throw(e, ErrorCreating)
                ELSE [e EXCEPT !.store[f].revisions =
                        Append(@, newRevision(e.l.lastContent, e.l.content,
                                              e.l.name, e.time))]
          [] stmt = "slice" ->
                IF e.l.created THEN e
                ELSE IF ~HasChain(e.store, f) THEN throw(e, ErrorCreating)
                ELSE [e EXCEPT !.store[f] = trimChain(@, e.max)]
          [] stmt = "await updateGlobalState" ->
                [e EXCEPT !.stored = e.store, !.flow = "await"]
          [] stmt = "show Snapshot created" -> e
          [] stmt = "if no revision return" ->
                IF validIndex(e.store, f, e.l.revisionIndex)
                THEN e ELSE [e EXCEPT !.flow = "return"]
          [] stmt = "revision.name = name" ->
                IF ~validIndex(e.store, f, e.l.revisionIndex)
                THEN throw(e, ErrorRenaming)
                ELSE [e EXCEPT !.store =
                        renameStore(e.store, f, e.l.revisionIndex, e.l.name)]
          [] stmt = "getWebviewContent" ->
                IF ~HasChain(e.store, f) THEN throw(e, ErrorRenaming) ELSE e
          [] stmt = "show Revision renamed" -> e
          [] stmt \in {"await showInputBox name", "await showInputBox days",
                       "await showWarningMessage"} ->
                [e EXCEPT !.flow = "await"]
          [] stmt = "days = result" ->
                [e EXCEPT !.l.days = in.result]
          [] stmt = "if no days return" ->
                IF e.l.days = NoDays THEN [e EXCEPT !.flow = "return"] ELSE e
          [] stmt = "choice = result" ->
                [e EXCEPT !.l.choice = in.result]
          [] stmt = "if not Yes return" ->
                IF e.l.choice = "Yes" THEN e ELSE [e EXCEPT !.flow = "return"]
          [] stmt = "cleanupOldRevisions" ->
                [e EXCEPT !.l.cleanedUp =
                              totalCleaned(e.store, cutoffOf(e.time, e.l.days)),
                          !.store = cleanupStore(e.store, cutoffOf(e.time, e.l.days))]
          [] stmt = "show Cleaned up" -> e
          [] stmt = "updateGlobalState" ->
                [e EXCEPT !.stored = e.store]
          [] stmt = "trimRevisionsToMax" ->
                [e EXCEPT !.store = trimRevisionsToMax(e.store, e.max)]

\* run to completion: from statement pc to the end, a return or the next await
RECURSIVE run(_, _, _, _)
run(steps, pc, e, in) ==
    IF pc > Len(steps)
    THEN [e EXCEPT !.flow = "return", !.pc = pc]
    ELSE LET after == exec(steps[pc], e, in)
         IN  IF after.flow = "next"
             THEN run(steps, pc + 1, after, in)
             ELSE [after EXCEPT !.pc = pc + 1]

\* what the await at statement pc - 1 can resolve to
resultsAt(steps, pc) ==
    CASE steps[pc - 1] = "await showInputBox name" -> NameInputs
      [] steps[pc - 1] = "await showInputBox days" -> DaysInputs \cup {NoDays}
      [] steps[pc - 1] = "await showWarningMessage" -> {"Yes", "No"}
      [] OTHER -> {Undefined}

\* the texts the document can hold when the callback reads it, if it does
textsAt(steps, pc) ==
    IF \E j \in pc .. Len(steps) : steps[j] = "content = getText"
    THEN Texts ELSE {"-"}

\* one turn of the event loop: the callback of `handler' runs from statement
\* pc with locals l, and is kept among `others' if it stops at an await
turn(handler, pc, l, in, maxRevisions, others) ==
    LET e == run(Steps(handler), pc,
                 [store |-> globalRevisions, stored |-> persisted, l |-> l,
                  flow |-> "next", pc |-> pc, max |-> maxRevisions, time |-> now],
                 in)
    IN  /\ globalRevisions' = e.store
        /\ persisted' = e.stored
        /\ suspended' =
             IF e.flow = "await"
             THEN others (+) SetToBag({[handler |-> handler, pc |-> e.pc,
                                        l |-> liveLocals(e.l, Steps(handler), e.pc)]})
             ELSE others
        /\ UNCHANGED <<now, message, lastContent, lifecycle, intact, intactStored, view>>

\* the host calls a handler
dispatch(handler, l, content, maxRevisions) ==
    /\ BagCardinality(suspended) < MaxSuspended
    /\ turn(handler, 1, l, [result |-> Undefined, content |-> content],
            maxRevisions, suspended)

DispatchSave ==
    \E fileName \in AsyncFiles, content \in Texts :
        /\ snapshots < MaxSnapshots
        /\ snapshots' = snapshots + 1
        /\ dispatch("onDidSaveTextDocument",
                    [NoLocals EXCEPT !.fileName = fileName, !.name = Undefined],
                    content, maxRevisionsPerFile)
        /\ UNCHANGED maxRevisionsPerFile

DispatchCreateSnapshot ==
    \E fileName \in AsyncFiles :
        /\ snapshots < MaxSnapshots
        /\ snapshots' = snapshots + 1
        /\ dispatch("createSnapshot", [NoLocals EXCEPT !.fileName = fileName],
                    "-", maxRevisionsPerFile)
        /\ UNCHANGED maxRevisionsPerFile

\* webview message 'rename'; for a file that never had a chain the handler
\* returns at once
DispatchRename ==
    \E fileName \in AsyncFiles, revisionIndex \in IndexInputs,
       name \in NameInputs \ {Undefined} :
        /\ dispatch("renameRevision",
                    [NoLocals EXCEPT !.fileName = fileName,
                                     !.revisionIndex = revisionIndex,
                                     !.name = name],
                    "-", maxRevisionsPerFile)
        /\ UNCHANGED <<maxRevisionsPerFile, snapshots>>

DispatchCleanup ==
    /\ dispatch("cleanupRevisions", NoLocals, "-", maxRevisionsPerFile)
    /\ UNCHANGED <<maxRevisionsPerFile, snapshots>>

DispatchConfigChange ==
    \E maxRevisions \in ConfigValues :
        /\ maxRevisions # maxRevisionsPerFile
        /\ maxRevisionsPerFile' = maxRevisions
        /\ dispatch("onConfigChange", NoLocals, "-", maxRevisions)
        /\ UNCHANGED snapshots

\* an awaited promise settles and the callback goes on
Resume ==
    \E t \in BagToSet(suspended) :
        \E result \in resultsAt(Steps(t.handler), t.pc),
           content \in textsAt(Steps(t.handler), t.pc) :
            /\ turn(t.handler, t.pc, t.l, [result |-> result, content |-> content],
                    maxRevisionsPerFile, suspended (-) SetToBag({t}))
            /\ UNCHANGED <<maxRevisionsPerFile, snapshots>>

NextAsync ==
    \/ DispatchSave
    \/ DispatchCreateSnapshot
    \/ DispatchRename
    \/ DispatchCleanup
    \/ DispatchConfigChange
    \/ Resume

SpecAsync == Init /\ [][NextAsync]_vars

\* a callback is suspended inside its work on a chain: it has read or written
\* a chain and has a write of a chain still to do
midMutation(t) ==
    \E i \in 1 .. t.pc - 1, j \in t.pc .. Len(Steps(t.handler)) :
        /\ Steps(t.handler)[i] \in ChainReads
        /\ Steps(t.handler)[j] \in Mutations

\* the store is what one whole operation makes of the store before
oneOperation(before, after, maxRevisions) ==
    \/ \E fileName \in AsyncFiles, content \in Texts, name \in NameInputs :
          after = createSnapshotStore(before, fileName, content, name, now, maxRevisions)
    \/ \E fileName \in AsyncFiles, revisionIndex \in IndexInputs,
          name \in NameInputs \ {Undefined} :
          after = renameResult(before, fileName, revisionIndex, name)
    \/ \E days \in DaysInputs : after = cleanupStore(before, cutoffOf(now, days))
    \/ after = trimRevisionsToMax(before, maxRevisions)

\* C20: with the handlers run as asynchronous callbacks, no callback is ever
\* suspended between its first access to a chain and its last write of one
\* (every await comes before the first or after the last), and every turn of
\* the event loop that changes the store changes it by exactly one whole
\* operation: a snapshot (reconstruct, append, trim), a rename, a cleanup or a
\* max-count trim.
C20_Atomicity ==
    [][ /\ \A t \in BagToSet(suspended') : ~midMutation(t)
        /\ globalRevisions' # globalRevisions =>
              oneOperation(globalRevisions, globalRevisions', maxRevisionsPerFile')
      ]_vars

\* a snapshot and a rename of the same chain are both waiting for the store to
\* be saved, after the chain was appended to and a revision was named
C20_Witness ==
    /\ \E t \in BagToSet(suspended) :
          t.handler = "onDidSaveTextDocument" /\ t.l.fileName = "f1"
    /\ \E t \in BagToSet(suspended) :
          t.handler = "renameRevision" /\ t.l.fileName = "f1"
    /\ HasChain(globalRevisions, "f1")
    /\ \E i \in 1 .. Len(globalRevisions["f1"].revisions) :
          globalRevisions["f1"].revisions[i].name = "v1"

----------------------------------------------------------------------------
(* Further properties of the store *)

\* C21: with a clock that never goes back, the timestamps of every chain's
\* revisions never decrease along the chain, in the store in memory and in
\* the stored map, whatever snapshots, trims, cleanups and renames were made.
C21_TimestampOrder ==
    \A store \in {globalRevisions, persisted} :
        \A f \in DOMAIN store :
            \A i, j \in 1 .. Len(store[f].revisions) :
                i < j => store[f].revisions[i].timestamp <= store[f].revisions[j].timestamp

\* a chain that holds revisions of two different days, the older of which was
\* renamed after the newer was appended
C21_Witness ==
    \E f \in DOMAIN globalRevisions :
        LET revisions == globalRevisions[f].revisions
        IN  /\ Len(revisions) = 2
            /\ revisions[1].timestamp < revisions[2].timestamp
            /\ revisions[1].name = "v1"
            /\ message.text = RevisionRenamed

\* a snapshot of a content over the ceiling and a rename of a revision that
\* does not exist leave the whole store as it is
SkippedChangesNothing ==
    \A a \in Files :
        /\ \A content \in Texts :
              tooLarge(content) =>
                  createSnapshotStore(globalRevisions, a, content, Undefined, now,
                                      maxRevisionsPerFile) = globalRevisions
        /\ \A index \in IndexInputs :
              ~validIndex(globalRevisions, a, index) =>
                  renameResult(globalRevisions, a, index, "v1") = globalRevisions

\* C22: a snapshot (chain creation or append with its inline trim) and a
\* rename for one file leave the entry of every other file as it was: present
\* or absent, with the same base and the same revisions; so do a snapshot that
\* is skipped for its size and a rename of a revision that does not exist.
C22_ChainIndependence ==
    /\ []SkippedChangesNothing
    /\ [][ /\ SnapshotFrame =>
                \A a \in Files :
                    (/\ message'.file = a
                     /\ \E content \in Texts, name \in NameInputs :
                            createSnapshotForFile(a, content, name))
                    => Without(globalRevisions', {a}) = Without(globalRevisions, {a})
           /\ RenameFrame =>
                \A a \in DOMAIN globalRevisions :
                    (\E index \in 0 .. Len(globalRevisions[a].revisions) - 1,
                        name \in NameInputs \ {Undefined} :
                            renameRevision(a, index, name))
                    => Without(globalRevisions', {a}) = Without(globalRevisions, {a})
          ]_vars

\* the chain of one file was appended to while the other file has a chain
C22_Witness ==
    /\ DOMAIN globalRevisions = Files
    /\ \E a \in Files :
          /\ message = Message(SnapshotCreated, a, 0)
          /\ Len(globalRevisions[a].revisions) = 1
          /\ \A b \in Files \ {a} : lifecycle[b] = "live"

\* a chain that holds a patch which does not apply when the chain is replayed
corruptChain(chain) ==
    \E i \in 1 .. Len(replay(chain, Len(chain.revisions)).results) :
        ~replay(chain, Len(chain.revisions)).results[i]

\* C23: a cleanup over all chains is not stopped by a chain that holds a patch
\* that does not apply: every chain is filtered, the number shown counts the
\* revisions removed from all of them, and the chains that are corrupt are
\* reported: the message shown names them.
C23_CorruptReported ==
    [][ CleanupFrame => \A days \in DaysInputs : cleanupRevisions(days) =>
            /\ globalRevisions' = cleanupStore(globalRevisions, cutoffOf(now, days))
            /\ message'.count
                 = revisionCount(globalRevisions) - revisionCount(globalRevisions')
            /\ \A f \in DOMAIN globalRevisions :
                  corruptChain(globalRevisions[f]) => message'.file = f
      ]_vars

\* s can be had from t by deleting elements of t
RECURSIVE IsSubsequence(_, _)
IsSubsequence(s, t) ==
    IF s = <<>> THEN TRUE
    ELSE IF t = <<>> THEN FALSE
    ELSE IF Head(s) = Head(t) THEN IsSubsequence(Tail(s), Tail(t))
    ELSE IsSubsequence(s, Tail(t))

\* the chain of fileName in `after' has the base it had in `before' and its
\* revisions are, whole and in order, revisions of the chain in `before'
Survivors(before, after, fileName) ==
    /\ after[fileName].baseContent = before[fileName].baseContent
    /\ IsSubsequence(after[fileName].revisions, before[fileName].revisions)

\* C24: the max-count trim (on a configuration change, on activation and
\* inside a snapshot) and the age cleanup only delete whole revisions: the
\* revisions a chain holds afterwards are revisions it held before (after the
\* append, for a snapshot), each with its patch, timestamp and name, in the
\* order they had.
C24_SurvivorsUntouched ==
    [][ /\ ConfigFrame => \A m \in ConfigValues : configChange(m) =>
              \A f \in DOMAIN globalRevisions' :
                  Survivors(globalRevisions, globalRevisions', f)
        /\ (ActivateFrame /\ Activate) =>
              \A f \in DOMAIN globalRevisions' :
                  Survivors(persisted, globalRevisions', f)
        /\ CleanupFrame => \A days \in DaysInputs : cleanupRevisions(days) =>
              \A f \in DOMAIN globalRevisions' :
                  Survivors(globalRevisions, globalRevisions', f)
        /\ SnapshotFrame =>
              \A f \in DOMAIN globalRevisions :
                  message'.file = f =>
                      LET new == globalRevisions'[f].revisions
                      IN  /\ Len(new) >= 1
                          /\ globalRevisions'[f].baseContent = globalRevisions[f].baseContent
                          /\ IsSubsequence(SubSeq(new, 1, Len(new) - 1),
                                           globalRevisions[f].revisions)
      ]_vars

\* a cleanup kept the newer, named revision of a chain and removed the older
C24_Witness ==
    \E f \in DOMAIN globalRevisions :
        /\ message.text = CleanedUp
        /\ message.count = 1
        /\ Len(globalRevisions[f].revisions) = 1
        /\ globalRevisions[f].revisions[1].name = "v1"

\* C25: the cleanup leaves as it is every chain none of whose revisions has a
\* timestamp at or before the cutoff, a chain without revisions included, and
\* removes the entry of a file only if it removed a revision of it.
C25_CleanupSparesIneligible ==
    [][ CleanupFrame => \A days \in DaysInputs : cleanupRevisions(days) =>
            \A f \in DOMAIN globalRevisions :
                /\ (\A i \in 1 .. Len(globalRevisions[f].revisions) :
                        globalRevisions[f].revisions[i].timestamp > cutoffOf(now, days))
                   => /\ HasChain(globalRevisions', f)
                      /\ globalRevisions'[f] = globalRevisions[f]
                /\ ~HasChain(globalRevisions', f)
                   => Len(globalRevisions[f].revisions) >= 1
      ]_vars

\* C26: a manual snapshot with a name that is not empty and a content within
\* the ceiling leaves the chain of the file holding that name on the version
\* it recorded, when it created the chain as well as when it appended to it.
C26_LabelKept ==
    [][ SnapshotFrame =>
        \A f \in Files, content \in Texts, name \in NameInputs \ {Undefined, ""} :
            (/\ message'.file = f
             /\ ~tooLarge(content)
             /\ createSnapshotForFile(f, content, OrUndefined(name))) =>
                /\ HasChain(globalRevisions', f)
                /\ NewRevisionLast(globalRevisions', f, name)
      ]_vars

\* C27: when the extension is activated again, the store in memory right
\* after the activation (the stored map, loaded and trimmed) is the store that
\* was in memory before: nothing a trim dropped from memory comes back.
C27_RestartEquivalence ==
    [][ (ActivateFrame /\ Activate) => globalRevisions' = globalRevisions ]_vars

----------------------------------------------------------------------------
(* The history view.                                                       *)
(*                                                                         *)
(* The command revisions.viewHistory renders the chain of the file into    *)
(* the HTML of a panel: one entry per revision, whose buttons carry the    *)
(* position the revision had when the panel was rendered.  The panel is    *)
(* rendered again only by a rename that succeeded.  `view' is the chain    *)
(* the open panel was rendered from; SpecHistory follows one panel, the    *)
(* one opened last, and the requests sent from it.                         *)

\* command revisions.viewHistory: for a file with a chain the panel is
\* rendered from the chain as it is now
openHistoryView(fileName) ==
    /\ viewHistory(fileName)
    /\ view' = IF HasChain(globalRevisions, fileName)
               THEN [fileName |-> fileName, chain |-> globalRevisions[fileName]]
               ELSE view

OpenHistoryView == \E fileName \in Files : openHistoryView(fileName)

\* the positions the panel offers: its revisions, and -1 for the base
ShownIndices == -1 .. Len(view.chain.revisions) - 1

\* webview message 'rename' of the panel; after a rename that took place the
\* panel is rendered again
renameFromView(revisionIndex, name) ==
    /\ view # NoView
    /\ renameRevision(view.fileName, revisionIndex, name)
    /\ view' = IF validIndex(globalRevisions, view.fileName, revisionIndex)
               THEN [view EXCEPT !.chain = globalRevisions'[view.fileName]]
               ELSE view

\* webview messages 'compare', 'restore' and 'restoreInplace' of the panel
compareFromView(revisionIndex) ==
    view # NoView /\ compareRevisions(view.fileName, revisionIndex)

restoreFromView(revisionIndex) ==
    view # NoView /\ restoreRevision(view.fileName, revisionIndex)

restoreInplaceFromView(revisionIndex) ==
    view # NoView /\ restoreRevisionInplace(view.fileName, revisionIndex)

RenameFromView ==
    \E revisionIndex \in ShownIndices \ {-1}, name \in NameInputs \ {Undefined} :
        renameFromView(revisionIndex, name)

CompareFromView == \E revisionIndex \in ShownIndices : compareFromView(revisionIndex)

RestoreFromView == \E revisionIndex \in ShownIndices : restoreFromView(revisionIndex)

RestoreInplaceFromView ==
    \E revisionIndex \in ShownIndices : restoreInplaceFromView(revisionIndex)

NextHistory ==
    \/ OnDidSaveTextDocument
    \/ CleanupCommand
    \/ ConfigChange
    \/ Tick
    \/ OpenHistoryView
    \/ RenameFromView
    \/ CompareFromView
    \/ RestoreFromView
    \/ RestoreInplaceFromView

SpecHistory == Init /\ [][NextHistory]_vars

\* the revision the store holds at revisionIndex for the file of the panel is
\* the one the panel shows there: same patch, same timestamp, same content
ShownRevision(revisionIndex) ==
    LET f == view.fileName
        rendered == [g \in {f} |-> view.chain]
    IN  /\ validIndex(globalRevisions, f, revisionIndex)
        /\ globalRevisions[f].revisions[revisionIndex + 1].diff
             = view.chain.revisions[revisionIndex + 1].diff
        /\ globalRevisions[f].revisions[revisionIndex + 1].timestamp
             = view.chain.revisions[revisionIndex + 1].timestamp
        /\ getContentAtRevision(globalRevisions, f, revisionIndex)
             = getContentAtRevision(rendered, f, revisionIndex)

\* C28: a compare, restore or rename request of the open history view for
\* the revision shown at position i is carried out on that revision (its
\* patch, timestamp and content), whatever snapshots, cleanups and
\* configuration changes were handled since the view was rendered.
C28_StableIndices ==
    [][ \A revisionIndex \in ShownIndices \ {-1} :
            (\/ \E name \in NameInputs \ {Undefined} : renameFromView(revisionIndex, name)
             \/ compareFromView(revisionIndex)
             \/ restoreFromView(revisionIndex)
             \/ restoreInplaceFromView(revisionIndex))
            => ShownRevision(revisionIndex)
      ]_vars

====
